---- MODULE Spec2Model ----
(***************************************************************************)
(* A model of knackpy's App class (src/knackpy/app.py): the container      *)
(* registry and identifier resolution, the per-container record cache     *)
(* self.data, timezone resolution, the download assembler, the download    *)
(* executor and download() on a local filesystem.                          *)
(*                                                                         *)
(* Python strings are TLA+ strings (TLC evaluates \o, Len and SubSeq on    *)
(* them).  Python's None is the value None below, which is no text any    *)
(* string of the model contains.                                           *)
(***************************************************************************)
EXTENDS Integers, Sequences, FiniteSets, TLC

VARIABLES
    containers,   \* self.containers: the registry, a sequence of containers
    data,         \* self.data: dict container_key -> cached raw record batch
    TIMEZONES,    \* knackpy.models.TIMEZONES: the common-name table
    last,         \* the most recent call on the App: its arguments and outcome
    fetched,      \* history: container_key -> batch of its latest successful api.get
    fs            \* the local filesystem: the directories and the files it holds

vars == <<containers, data, TIMEZONES, last, fetched, fs>>

-----------------------------------------------------------------------------
(* Bounds of the model. *)

\* longest batch the transport returns
MaxBatch == 2
\* longest registry drawn for identifier resolution
MaxContainers == 2
\* longest common-name table drawn for timezone resolution
MaxTable == 2
\* an attachment filename longer than this is not assembled again
MaxNameLen == 3
\* longest descriptor list handed to the download executor on its own
MaxDownloads == 3

-----------------------------------------------------------------------------
(* Python values. *)

None == "<None>"

\* bool(v) is False for None and for the empty string
Falsy(v) == v = None \/ v = ""

\* f"{v}": str(None) is "None", str of a str is the str itself
Format(v) == IF v = None THEN "None" ELSE v

\* str.lower, on the letters the model's strings use
LowerChar(c) ==
    CASE c = "A" -> "a" [] c = "B" -> "b" [] c = "C" -> "c" [] c = "D" -> "d"
      [] c = "E" -> "e" [] c = "F" -> "f" [] c = "G" -> "g" [] c = "H" -> "h"
      [] c = "I" -> "i" [] c = "J" -> "j" [] c = "K" -> "k" [] c = "L" -> "l"
      [] c = "M" -> "m" [] c = "N" -> "n" [] c = "O" -> "o" [] c = "P" -> "p"
      [] c = "Q" -> "q" [] c = "R" -> "r" [] c = "S" -> "s" [] c = "T" -> "t"
      [] c = "U" -> "u" [] c = "V" -> "v" [] c = "W" -> "w" [] c = "X" -> "x"
      [] c = "Y" -> "y" [] c = "Z" -> "z"
      [] OTHER -> c

RECURSIVE Lower(_)
Lower(s) ==
    IF s = "" THEN ""
    ELSE LowerChar(SubSeq(s, 1, 1)) \o Lower(SubSeq(s, 2, Len(s)))

\* dict.get(k): the value, or None when the key is absent
Get(d, k) == IF k \in DOMAIN d THEN d[k] ELSE None

\* the empty dict
EmptyDict == [k \in {} |-> ""]

-----------------------------------------------------------------------------
(* Timezone resolution: App._get_timezone. *)

\* the zones pytz knows
IanaZones == {"US/C", "US/E"}

UnknownTimeZoneError == "UnknownTimeZoneError"

\* pytz.timezone(zone): the zone of that name (pytz looks names up without
\* regard to case), or UnknownTimeZoneError
pytz_timezone(zone) ==
    IF \E z \in IanaZones : Lower(z) = Lower(zone)
    THEN [ok |-> TRUE, zone |-> CHOOSE z \in IanaZones : Lower(z) = Lower(zone)]
    ELSE [ok |-> FALSE, zone |-> UnknownTimeZoneError]

\* the list comprehension of lines 135-139: iana names of the entries whose
\* common name equals tzinfo without regard to case, in table order
RECURSIVE tz_matches(_, _)
tz_matches(table, tzinfo) ==
    IF table = <<>> THEN <<>>
    ELSE (IF Lower(Head(table).common_name) = Lower(tzinfo)
          THEN <<Head(table).iana_name>> ELSE <<>>)
         \o tz_matches(Tail(table), tzinfo)

\* variant: the last match is handed to pytz
tz_second_tier_last(table, tzinfo) ==
    LET matches == tz_matches(table, tzinfo)
    IN  IF matches = <<>> THEN [ok |-> FALSE, zone |-> "IndexError"]
        ELSE pytz_timezone(matches[Len(matches)])

\* the second try block, lines 133-143: matches[0] handed to pytz
tz_second_tier(table, tzinfo) ==
    LET matches == tz_matches(table, tzinfo)
    IN  IF matches = <<>> THEN [ok |-> FALSE, zone |-> "IndexError"]
        ELSE pytz_timezone(matches[1])

get_timezone(table, tzinfo) ==
    LET first == pytz_timezone(tzinfo)
    IN  IF first.ok THEN [outcome |-> "return", zone |-> first.zone]
        ELSE LET second == tz_second_tier(table, tzinfo)
             IN  IF second.ok THEN [outcome |-> "return", zone |-> second.zone]
                 ELSE [outcome |-> "ValueError", zone |-> None]

-----------------------------------------------------------------------------
(* Identifier resolution: App._find_container. *)

Container(obj, view, scene, name) ==
    [obj |-> obj, view |-> view, scene |-> scene, name |-> name]

NoContainer == Container(None, None, None, None)

\* the list comprehension of lines 154-158
RECURSIVE container_matches(_, _)
container_matches(cs, identifier) ==
    IF cs = <<>> THEN <<>>
    ELSE (IF identifier \in {Head(cs).obj, Head(cs).view, Head(cs).name}
          THEN <<Head(cs)>> ELSE <<>>)
         \o container_matches(Tail(cs), identifier)

\* variant: the first match is returned even when several containers match
find_container_first(cs, identifier) ==
    LET matches == container_matches(cs, identifier)
    IN  IF Len(matches) = 0
        THEN [outcome |-> "IndexError", container |-> NoContainer]
        ELSE [outcome |-> "return", container |-> matches[1]]

\* variant: the last match is returned when several containers match
find_container_last(cs, identifier) ==
    LET matches == container_matches(cs, identifier)
    IN  IF Len(matches) = 0
        THEN [outcome |-> "IndexError", container |-> NoContainer]
        ELSE [outcome |-> "return", container |-> matches[Len(matches)]]

find_container(cs, identifier) ==
    LET matches == container_matches(cs, identifier)
    IN  IF Len(matches) > 1
        THEN [outcome |-> "ValueError", container |-> NoContainer]
        ELSE IF Len(matches) = 0
        THEN [outcome |-> "IndexError", container |-> NoContainer]
        ELSE [outcome |-> "return", container |-> matches[1]]

-----------------------------------------------------------------------------
(* The record cache: App.records. *)

\* an attachment payload as the service returns it: the url ends with the
\* upstream filename
File(name) == [filename |-> name, url |-> "u/" \o name, size |-> 1]

\* the upstream rows the transport pages through
RawPool ==
    << [id |-> "r1", field_1 |-> "A", field_2 |-> "B", field_17_raw |-> File("a")],
       [id |-> "r2", field_1 |-> "A", field_2 |-> "B", field_17_raw |-> EmptyDict,
        field_18_raw |-> File("c")],
       [id |-> "r3", field_1 |-> "C", field_17_raw |-> File("b")] >>

Row(i) == RawPool[((i - 1) % Len(RawPool)) + 1]

\* the batches api.get can return: any window of at most MaxBatch rows
Batches ==
    { [i \in 1..n |-> Row(start + i - 1)] : start \in 1..Len(RawPool), n \in 0..MaxBatch }

\* what a call of api.get does: it returns a batch or raises
Responses ==
    { [ok |-> TRUE, batch |-> b] : b \in Batches } \cup { [ok |-> FALSE, batch |-> <<>>] }

NoResponse == [ok |-> FALSE, batch |-> <<>>]

\* record_limit: 0 stands for None (line 187 drops both alike)
RecordLimits == {0, 1}

Filters == {None, "f1"}

\* _build_request_kwargs with max_attempts = timeout = None as constructed:
\* the keys whose value is truthy
build_request_kwargs(record_limit) ==
    [k \in {key \in {"record_limit"} : record_limit # 0} |-> record_limit]

NoRequest == [sent |-> FALSE]

Request(container, filters, request_kwargs) ==
    [sent |-> TRUE, obj |-> container.obj, scene |-> container.scene,
     view |-> container.view, filters |-> filters, kwargs |-> request_kwargs]

\* container.obj or container.view, line 225
container_key(container) ==
    IF ~Falsy(container.obj) THEN container.obj ELSE container.view

\* lines 218-221: the identifier records() goes on with, None when it raises
default_identifier(d, identifier) ==
    IF Falsy(identifier) /\ Cardinality(DOMAIN d) = 1
    THEN CHOOSE k \in DOMAIN d : TRUE
    ELSE IF Falsy(identifier) THEN None
    ELSE identifier

\* variant: refresh is not looked at
must_fetch_unless_cached(d, key, refresh) ==
    key \notin DOMAIN d \/ d[key] = <<>>

\* the condition of line 227: not self.data.get(container_key) or refresh
must_fetch(d, key, refresh) ==
    (key \notin DOMAIN d \/ d[key] = <<>>) \/ refresh

\* variant: the batch is appended to the entry the key already has
store_merged(d, key, batch) ==
    [k \in DOMAIN d \cup {key} |->
        IF k = key THEN (IF key \in DOMAIN d THEN d[key] ELSE <<>>) \o batch
        ELSE d[k]]

\* variant: the cache is replaced by the one entry
store_alone(d, key, batch) ==
    [k \in {key} |-> batch]

\* self.data[container_key] = batch, line 234
store(d, key, batch) ==
    [k \in DOMAIN d \cup {key} |-> IF k = key THEN batch ELSE d[k]]

\* variant: a failed fetch leaves an empty entry behind
Raised_storing_empty(d, error, key, fetches, request) ==
    [data |-> IF fetches = 1
              THEN [k \in DOMAIN d \cup {key} |-> IF k = key THEN <<>> ELSE d[k]]
              ELSE d,
     outcome |-> error, key |-> key, fetches |-> fetches,
     request |-> request, result |-> <<>>]

\* the call ends in an exception: nothing is assigned, the cache stays d
Raised(d, error, key, fetches, request) ==
    [data |-> d, outcome |-> error, key |-> key, fetches |-> fetches,
     request |-> request, result |-> <<>>]

\* App.records as a function of the registry, the cache, the arguments and
\* what the transport answers if it is asked: the cache afterwards, the
\* outcome, the number of api.get calls, what was asked of the transport and
\* the batch handed to _generate_records
records_call(cs, d, identifier, refresh, record_limit, filters, resp) ==
    LET ident == default_identifier(d, identifier)
    IN  IF Falsy(ident) THEN Raised(d, "TypeError", None, 0, NoRequest)
        ELSE
        LET found == find_container(cs, ident)
        IN  IF found.outcome # "return"
            THEN Raised(d, found.outcome, None, 0, NoRequest)
            ELSE
            LET container == found.container
                key == container_key(container)
                request == Request(container, filters,
                                   build_request_kwargs(record_limit))
            IN  IF must_fetch(d, key, refresh)
                THEN IF resp.ok
                     THEN [data |-> store(d, key, resp.batch), outcome |-> "return",
                           key |-> key, fetches |-> 1, request |-> request,
                           result |-> store(d, key, resp.batch)[key]]
                     ELSE Raised(d, "TransportFailure", key, 1, request)
                ELSE [data |-> d, outcome |-> "return", key |-> key, fetches |-> 0,
                      request |-> NoRequest, result |-> d[key]]

\* whether the call reaches api.get
asks_transport(cs, d, identifier, refresh) ==
    records_call(cs, d, identifier, refresh, 0, None, NoResponse).fetches = 1

-----------------------------------------------------------------------------
(* The download assembler: App._assemble_downloads. *)

\* os.path.join(a, b) on a POSIX system
path_join(a, b) ==
    IF b # "" /\ SubSeq(b, 1, 1) = "/" THEN b
    ELSE IF a = "" \/ SubSeq(a, Len(a), Len(a)) = "/" THEN a \o b
    ELSE a \o "/" \o b

\* records.Records(...).records(), lines 246-249: one Record for each raw
\* record of the batch, in batch order.  record.raw is the raw record the
\* cache holds (the same object, not a copy), named here by its place
generate_records(key, batch) ==
    [i \in DOMAIN batch |-> [key |-> key, index |-> i]]

record_raw(d, record) == d[record.key][record.index]

\* not file_dict, line 325: record.raw.get(field_key_raw) is None or empty
no_file_dict(raw, field_key_raw) ==
    field_key_raw \notin DOMAIN raw \/ DOMAIN raw[field_key_raw] = {}

\* label_keys is None, or a list of field keys
NoLabelKeys == [none |-> TRUE, list |-> <<>>]
LabelKeys(list) == [none |-> FALSE, list |-> list]

\* lines 333-334 from the n-th label key down to the first:
\* for field in reversed(label_keys): filename = f"{record.raw.get(field)}_{filename}"
RECURSIVE prepend_labels(_, _, _, _)
prepend_labels(raw, list, n, filename) ==
    IF n = 0 THEN filename
    ELSE prepend_labels(raw, list, n - 1,
                        Format(Get(raw, list[n])) \o "_" \o filename)

\* lines 328-334: the filename before it is joined to out_dir
labelled_filename(raw, filename, label_keys) ==
    IF ~label_keys.none /\ label_keys.list # <<>>
    THEN prepend_labels(raw, label_keys.list, Len(label_keys.list), filename)
    ELSE filename

\* variant: each descriptor is put in front of the ones collected so far
RECURSIVE assemble_loop_prepending(_, _, _, _, _, _, _)
assemble_loop_prepending(d, recs, i, field_key_raw, label_keys, out_dir, downloads) ==
    IF i > Len(recs) THEN [data |-> d, downloads |-> downloads]
    ELSE
    LET raw == record_raw(d, recs[i])
    IN  IF no_file_dict(raw, field_key_raw)
        THEN assemble_loop_prepending(d, recs, i + 1, field_key_raw, label_keys,
                                      out_dir, downloads)
        ELSE
        LET filename == labelled_filename(raw, raw[field_key_raw].filename,
                                          label_keys)
            file_dict == [raw[field_key_raw] EXCEPT
                              !.filename = path_join(out_dir, filename)]
            d2 == [d EXCEPT ![recs[i].key][recs[i].index][field_key_raw] = file_dict]
        IN  assemble_loop_prepending(d2, recs, i + 1, field_key_raw, label_keys,
                                     out_dir, <<file_dict>> \o downloads)

\* the loop of lines 322-338 from the i-th record on: the assignment of
\* line 336 writes into the payload dict that record.raw, and so the cache,
\* holds; downloads collects those same dicts
RECURSIVE assemble_loop(_, _, _, _, _, _, _)
assemble_loop(d, recs, i, field_key_raw, label_keys, out_dir, downloads) ==
    IF i > Len(recs) THEN [data |-> d, downloads |-> downloads]
    ELSE
    LET raw == record_raw(d, recs[i])
    IN  IF no_file_dict(raw, field_key_raw)
        THEN assemble_loop(d, recs, i + 1, field_key_raw, label_keys, out_dir,
                           downloads)
        ELSE
        LET filename == labelled_filename(raw, raw[field_key_raw].filename,
                                          label_keys)
            file_dict == [raw[field_key_raw] EXCEPT
                              !.filename = path_join(out_dir, filename)]
            d2 == [d EXCEPT ![recs[i].key][recs[i].index][field_key_raw] = file_dict]
        IN  assemble_loop(d2, recs, i + 1, field_key_raw, label_keys, out_dir,
                          Append(downloads, file_dict))

\* App._assemble_downloads: self.records(identifier) with its defaults, then
\* the loop.  The breakpoint() of line 339 stops in the debugger and changes
\* nothing; the call goes on to return downloads
assemble_call(cs, d, identifier, field_key, label_keys, out_dir, resp) ==
    LET r == records_call(cs, d, identifier, FALSE, 0, None, resp)
    IN  IF r.outcome # "return"
        THEN [data |-> r.data, outcome |-> r.outcome, key |-> r.key,
              fetches |-> r.fetches, downloads |-> <<>>]
        ELSE
        LET a == assemble_loop(r.data, generate_records(r.key, r.data[r.key]), 1,
                               field_key \o "_raw", label_keys, out_dir, <<>>)
        IN  [data |-> a.data, outcome |-> "return", key |-> r.key,
             fetches |-> r.fetches, downloads |-> a.downloads]

FieldKeys == {"field_17", "field_18"}

LabelKeyArgs ==
    { NoLabelKeys, LabelKeys(<<>>), LabelKeys(<<"field_1">>),
      LabelKeys(<<"field_1", "field_2">>), LabelKeys(<<"field_2", "field_1">>) }

OutDirs == {"o"}

\* every attachment filename the cache holds is at most MaxNameLen long
NamesShort(d) ==
    \A k \in DOMAIN d : \A i \in DOMAIN d[k] : \A f \in DOMAIN d[k][i] :
        (f \in { fk \o "_raw" : fk \in FieldKeys } /\ DOMAIN d[k][i][f] # {})
            => Len(d[k][i][f].filename) <= MaxNameLen

-----------------------------------------------------------------------------
(* The download executor: App._download_files. *)

\* the place of the last "/" among the first i characters of path, 0 if none
RECURSIVE LastSlash(_, _)
LastSlash(path, i) ==
    IF i = 0 THEN 0
    ELSE IF SubSeq(path, i, i) = "/" THEN i
    ELSE LastSlash(path, i - 1)

\* str.rstrip("/")
RECURSIVE RStripSlash(_)
RStripSlash(s) ==
    IF s # "" /\ SubSeq(s, Len(s), Len(s)) = "/"
    THEN RStripSlash(SubSeq(s, 1, Len(s) - 1))
    ELSE s

\* os.path.dirname on a POSIX system: the directory open() looks the file up
\* in; "" is the working directory
dirname(path) ==
    LET head == SubSeq(path, 1, LastSlash(path, Len(path)))
    IN  IF RStripSlash(head) = "" THEN head ELSE RStripSlash(head)

\* a working directory that holds nothing yet
EmptyDisk == [dirs |-> {}, files |-> {}]

\* the working directory and the root are always there
dir_exists(disk, dir) == dir \in {"", "/"} \/ dir \in disk.dirs

\* os.path.exists, line 405
path_exists(disk, path) == dir_exists(disk, path) \/ path \in disk.files

\* path and the directories above it
RECURSIVE Ancestors(_)
Ancestors(path) ==
    IF path \in {"", "/"} THEN {}
    ELSE {path} \cup Ancestors(dirname(path))

\* os.makedirs, line 406: the leaf directory and every missing one above it
makedirs(disk, path) == [disk EXCEPT !.dirs = @ \cup Ancestors(path)]

\* open(filename, "wb") and fout.write, lines 376-377: the error open raises,
\* or None when the file is written
open_error(disk, filename) ==
    IF ~dir_exists(disk, dirname(filename)) THEN "FileNotFoundError"
    ELSE IF filename \in disk.dirs THEN "IsADirectoryError"
    ELSE None

\* how a call of _download_files ends: the disk, the outcome, the count it
\* returns (None when it raises), the urls requested and the paths written,
\* in the order it did so
Executed(disk, outcome, count, attempted, written) ==
    [disk |-> disk, outcome |-> outcome,
     count |-> IF outcome = "return" THEN count ELSE None,
     attempted |-> attempted, written |-> written]

\* variant: a transfer that fails is passed over and the loop goes on
RECURSIVE download_loop_skipping(_, _, _, _, _, _, _)
download_loop_skipping(downloads, i, statuses, disk, attempted, written, count) ==
    IF i > Len(downloads)
    THEN Executed(disk, "return", count, attempted, written)
    ELSE
    LET file_info == downloads[i]
        filename == file_info.filename
        asked == Append(attempted, file_info.url)
    IN  IF ~statuses[i]
        THEN download_loop_skipping(downloads, i + 1, statuses, disk, asked,
                                    written, count)
        ELSE IF open_error(disk, filename) # None
        THEN Executed(disk, open_error(disk, filename), count, asked, written)
        ELSE download_loop_skipping(downloads, i + 1, statuses,
                                    [disk EXCEPT !.files = @ \cup {filename}],
                                    asked, Append(written, filename), count + 1)

\* the loop of lines 367-378 from the i-th descriptor on.  statuses[i] says
\* whether requests.get answers the i-th url with a success status;
\* res.raise_for_status() raises HTTPError otherwise
RECURSIVE download_loop(_, _, _, _, _, _, _)
download_loop(downloads, i, statuses, disk, attempted, written, count) ==
    IF i > Len(downloads)
    THEN Executed(disk, "return", count, attempted, written)
    ELSE
    LET file_info == downloads[i]
        filename == file_info.filename
        asked == Append(attempted, file_info.url)
    IN  IF ~statuses[i]
        THEN Executed(disk, "HTTPError", count, asked, written)
        ELSE IF open_error(disk, filename) # None
        THEN Executed(disk, open_error(disk, filename), count, asked, written)
        ELSE download_loop(downloads, i + 1, statuses,
                           [disk EXCEPT !.files = @ \cup {filename}],
                           asked, Append(written, filename), count + 1)

Reversed(seq) == [i \in DOMAIN seq |-> seq[Len(seq) + 1 - i]]

\* variant: the descriptors are gone through from the last to the first
download_files_reversed(downloads, statuses, disk) ==
    download_loop(Reversed(downloads), 1, Reversed(statuses), disk, <<>>, <<>>, 0)

\* App._download_files, lines 365-380
download_files(downloads, statuses, disk) ==
    download_loop(downloads, 1, statuses, disk, <<>>, <<>>, 0)

-----------------------------------------------------------------------------
(* Download by identifier and field: App.download. *)

\* a field definition: its key, its display name and the key of the object
\* it belongs to
FieldDef(key, name, obj) == [key |-> key, name |-> name, obj |-> obj]

\* self.field_defs, built once from the metadata
field_defs ==
    << FieldDef("field_17", "File", "object_1"),
       FieldDef("field_18", "Photo", "object_1"),
       FieldDef("field_17", "File", "object_2") >>

\* the list comprehension of lines 252-257, in the order of defs
RECURSIVE find_field_def(_, _, _)
find_field_def(defs, identifier, obj) ==
    IF defs = <<>> THEN <<>>
    ELSE (IF Lower(identifier) \in {Lower(Head(defs).name), Head(defs).key}
             /\ Head(defs).obj = obj
          THEN <<Head(defs)>> ELSE <<>>)
         \o find_field_def(Tail(defs), identifier, obj)

FieldNotFound == "ValueError: Field not found"

\* how a call of download ends
Downloaded(d, disk, outcome, container, key, fetches, downloads, x) ==
    [data |-> d, disk |-> disk, outcome |-> outcome, container |-> container,
     key |-> key, fetches |-> fetches, downloads |-> downloads,
     attempted |-> x.attempted, written |-> x.written, count |-> x.count]

\* nothing was handed to the executor
NotExecuted == [attempted |-> <<>>, written |-> <<>>, count |-> None]

\* lines 405-406
ensure_out_dir(disk, out_dir) ==
    IF ~path_exists(disk, out_dir) THEN makedirs(disk, out_dir) ELSE disk

\* line 410: self._find_field_def(field, identifier)
field_defs_of(identifier, container, field) ==
    find_field_def(field_defs, field, identifier)

\* lines 419-423: the descriptors assembled by a go to the executor, and
\* its count or its error is the call's
download_execute(a, disk, container, statuses) ==
    IF a.outcome # "return"
    THEN Downloaded(a.data, disk, a.outcome, container, a.key, a.fetches, <<>>,
                    NotExecuted)
    ELSE Downloaded(a.data, download_files(a.downloads, statuses, disk).disk,
                    download_files(a.downloads, statuses, disk).outcome,
                    container, a.key, a.fetches, a.downloads,
                    download_files(a.downloads, statuses, disk))

\* lines 410-417: the field is looked up, and its first definition's key and
\* container.obj go to the assembler
download_field(cs, d, disk, container, defs, out_dir, label_keys, resp, statuses) ==
    IF defs = <<>>
    THEN Downloaded(d, disk, FieldNotFound, container, None, 0, <<>>, NotExecuted)
    ELSE download_execute(assemble_call(cs, d, container.obj, defs[1].key,
                                        label_keys, out_dir, resp),
                          disk, container, statuses)

\* lines 408-417, on the disk that holds out_dir
download_found(cs, d, disk, found, identifier, field, out_dir, label_keys, resp, statuses) ==
    IF found.outcome # "return"
    THEN Downloaded(d, disk, found.outcome, NoContainer, None, 0, <<>>, NotExecuted)
    ELSE download_field(cs, d, disk, found.container,
                        field_defs_of(identifier, found.container, field),
                        out_dir, label_keys, resp, statuses)

\* App.download, lines 405-423, as a function of the registry, the cache,
\* the disk, the arguments, what the transport answers to api.get if asked
\* and the status it gives each url
download_call(cs, d, disk, identifier, field, out_dir, label_keys, resp, statuses) ==
    download_found(cs, d, ensure_out_dir(disk, out_dir),
                   find_container(cs, identifier), identifier, field, out_dir,
                   label_keys, resp, statuses)

\* whether the call gets as far as self.records(container.obj)
reaches_records(cs, identifier, field) ==
    LET found == find_container(cs, identifier)
    IN  /\ found.outcome = "return"
        /\ field_defs_of(identifier, found.container, field) # <<>>

\* the field arguments tried: a key, a display name in another case, and
\* one that names no field
Fields == {"field_17", "PHOTO", "field_99"}

\* the label_keys download is tried with: the default, and two keys of which
\* some records lack the second
DownloadLabelKeyArgs == { NoLabelKeys, LabelKeys(<<"field_1", "field_2">>) }

-----------------------------------------------------------------------------
(* The registries and tables the model is run on. *)

ObjectKeys == {"object_1", "object_2"}
ViewKeys == {"view_1"}
Names == {"orders", "tasks", "object_1"}

\* every container utils.generate_containers can build from these strings:
\* an object container has no view, a view container no obj
ContainerPool ==
    { Container(o, None, None, n) : o \in ObjectKeys, n \in Names }
    \cup { Container(None, v, "scene_1", n) : v \in ViewKeys, n \in Names }

RECURSIVE SeqsUpTo(_, _)
SeqsUpTo(S, n) ==
    IF n = 0 THEN {<<>>}
    ELSE LET shorter == SeqsUpTo(S, n - 1)
         IN  shorter \cup { Append(s, x) : s \in shorter, x \in S }

\* the pair (obj, view) is unique within a registry
KeysUnique(cs) ==
    \A i, j \in DOMAIN cs : (cs[i].obj = cs[j].obj /\ cs[i].view = cs[j].view) => i = j

AllRegistries == { cs \in SeqsUpTo(ContainerPool, MaxContainers) : KeysUnique(cs) }

\* the registries the cache is exercised on: a name equal to another
\* container's key; an object and a view container sharing a name
Registries ==
    { << Container("object_1", None, None, "orders"),
         Container("object_2", None, None, "object_1") >>,
      << Container("object_1", None, None, "tasks"),
         Container(None, "view_1", "scene_1", "tasks") >> }

\* the registry the download assembler is exercised on
AssemblerRegistries ==
    { << Container("object_1", None, None, "orders") >> }

\* the identifiers a caller tries: none, every string of the registry, and
\* one that names nothing
Identifiers(cs) ==
    ({None, "nope"} \cup UNION { {cs[i].obj, cs[i].view, cs[i].name} : i \in DOMAIN cs })

\* the identifiers _find_container is tried on
AllIdentifiers == {None, "nope"} \cup ObjectKeys \cup ViewKeys \cup Names

DefaultTable == << [common_name |-> "ET", iana_name |-> "US/E"] >>

\* the tables timezone resolution is tried on: common names that differ in
\* case only, a common name that is itself a zone name, an iana name pytz
\* does not know
TzEntries ==
    { [common_name |-> c, iana_name |-> z] :
          c \in {"ET", "et", "US/C"}, z \in {"US/E", "US/C", "X/Y"} }

TzTables == SeqsUpTo(TzEntries, MaxTable)

TzInputs == {"ET", "Et", "US/C", "us/e", "zz"}

\* a descriptor as the assembler leaves it: the payload with its filename
\* joined to a directory
Descriptor(dir, name) == [File(name) EXCEPT !.filename = path_join(dir, name)]

\* the descriptors the executor is tried on: one in a directory, one in the
\* working directory
DescriptorPool == { Descriptor("o", "a"), Descriptor("", "c") }

DescriptorLists == SeqsUpTo(DescriptorPool, MaxDownloads)

\* the disks the executor is started on: with and without the directory
Disks == { EmptyDisk, makedirs(EmptyDisk, "o") }

TypeOK ==
    /\ containers \in Seq(ContainerPool)
    /\ DOMAIN data \subseteq (ObjectKeys \cup ViewKeys)
    /\ last.op \in {"__init__", "records", "_assemble_downloads",
                    "_find_container", "_get_timezone", "_download_files",
                    "download"}

-----------------------------------------------------------------------------
(* Actions. *)

NoFetch == [k \in {} |-> <<>>]

InitCache ==
    /\ containers \in Registries
    /\ data = [k \in {} |-> <<>>]
    /\ TIMEZONES = DefaultTable
    /\ last = [op |-> "__init__"]
    /\ fetched = NoFetch
    /\ fs = EmptyDisk

Init ==
    /\ containers \in AssemblerRegistries
    /\ data = [k \in {} |-> <<>>]
    /\ TIMEZONES = DefaultTable
    /\ last = [op |-> "__init__"]
    /\ fetched = NoFetch
    /\ fs = EmptyDisk

InitFind ==
    /\ containers \in AllRegistries
    /\ data = [k \in {} |-> <<>>]
    /\ TIMEZONES = DefaultTable
    /\ last = [op |-> "__init__"]
    /\ fetched = NoFetch
    /\ fs = EmptyDisk

InitTz ==
    /\ containers \in AssemblerRegistries
    /\ data = [k \in {} |-> <<>>]
    /\ TIMEZONES \in TzTables
    /\ last = [op |-> "__init__"]
    /\ fetched = NoFetch
    /\ fs = EmptyDisk

\* the history of successful fetches after a call that asked resp of the
\* transport
Fetched(key, fetches, resp) ==
    IF fetches = 1 /\ resp.ok
    THEN [k \in DOMAIN fetched \cup {key} |-> IF k = key THEN resp.batch ELSE fetched[k]]
    ELSE fetched

records(identifier, refresh, record_limit, filters) ==
    \E resp \in IF asks_transport(containers, data, identifier, refresh)
                THEN Responses ELSE {NoResponse} :
        LET r == records_call(containers, data, identifier, refresh,
                              record_limit, filters, resp)
        IN  /\ data' = r.data
            /\ last' = [op |-> "records", identifier |-> identifier,
                        refresh |-> refresh, record_limit |-> record_limit,
                        filters |-> filters, outcome |-> r.outcome, key |-> r.key,
                        had_entry |-> r.key \in DOMAIN data,
                        fetches |-> r.fetches, request |-> r.request,
                        response |-> resp, result |-> r.result]
            /\ fetched' = Fetched(r.key, r.fetches, resp)
            /\ UNCHANGED <<containers, TIMEZONES, fs>>

assemble_downloads(identifier, field_key, label_keys, out_dir) ==
    /\ NamesShort(data)
    /\ \E resp \in IF asks_transport(containers, data, identifier, FALSE)
                   THEN Responses ELSE {NoResponse} :
        LET a == assemble_call(containers, data, identifier, field_key,
                               label_keys, out_dir, resp)
        IN  /\ data' = a.data
            /\ last' = [op |-> "_assemble_downloads", identifier |-> identifier,
                        field_key |-> field_key, label_keys |-> label_keys,
                        out_dir |-> out_dir, outcome |-> a.outcome, key |-> a.key,
                        fetches |-> a.fetches, response |-> resp,
                        downloads |-> a.downloads]
            /\ fetched' = Fetched(a.key, a.fetches, resp)
            /\ UNCHANGED <<containers, TIMEZONES, fs>>

\* a call of _find_container on its own
find(identifier) ==
    LET found == find_container(containers, identifier)
    IN  /\ last' = [op |-> "_find_container", identifier |-> identifier,
                    outcome |-> found.outcome, container |-> found.container]
        /\ UNCHANGED <<containers, data, TIMEZONES, fetched, fs>>

\* a call of _get_timezone on its own
resolve_timezone(tzinfo) ==
    LET tz == get_timezone(TIMEZONES, tzinfo)
    IN  /\ last' = [op |-> "_get_timezone", tzinfo |-> tzinfo,
                    outcome |-> tz.outcome, zone |-> tz.zone]
        /\ UNCHANGED <<containers, data, TIMEZONES, fetched, fs>>

\* a call of _download_files on its own
execute_downloads(downloads) ==
    \E statuses \in [1..Len(downloads) -> BOOLEAN] :
        LET x == download_files(downloads, statuses, fs)
        IN  /\ fs' = x.disk
            /\ last' = [op |-> "_download_files", downloads |-> downloads,
                        statuses |-> statuses, outcome |-> x.outcome,
                        count |-> x.count, attempted |-> x.attempted,
                        written |-> x.written]
            /\ UNCHANGED <<containers, data, TIMEZONES, fetched>>

\* what api.get may answer during a download: anything if the call gets
\* to ask, nothing otherwise
DownloadResponses(identifier, field) ==
    IF reaches_records(containers, identifier, field)
       /\ asks_transport(containers, data,
                         find_container(containers, identifier).container.obj, FALSE)
    THEN Responses ELSE {NoResponse}

\* the step of a download that ends as r; statuses holds one status for each
\* descriptor and TRUE beyond them
downloaded(identifier, field, out_dir, label_keys, resp, statuses, r) ==
    /\ \A i \in DOMAIN statuses : i > Len(r.downloads) => statuses[i]
    /\ data' = r.data
    /\ fs' = r.disk
    /\ last' = [op |-> "download", identifier |-> identifier,
                field |-> field, out_dir |-> out_dir,
                label_keys |-> label_keys, outcome |-> r.outcome,
                container |-> r.container, key |-> r.key,
                fetches |-> r.fetches, response |-> resp,
                downloads |-> r.downloads,
                statuses |-> SubSeq(statuses, 1, Len(r.downloads)),
                attempted |-> r.attempted, written |-> r.written,
                count |-> r.count]
    /\ fetched' = Fetched(r.key, r.fetches, resp)
    /\ UNCHANGED <<containers, TIMEZONES>>

download(identifier, field, out_dir, label_keys) ==
    /\ NamesShort(data)
    /\ \E resp \in DownloadResponses(identifier, field),
          statuses \in [1..MaxBatch -> BOOLEAN] :
           downloaded(identifier, field, out_dir, label_keys, resp, statuses,
                      download_call(containers, data, fs, identifier, field,
                                    out_dir, label_keys, resp, statuses))

\* the record cache on its own: every call of records()
NextRecords ==
    \E identifier \in Identifiers(containers), refresh \in BOOLEAN,
       record_limit \in RecordLimits, filters \in Filters :
        records(identifier, refresh, record_limit, filters)

SpecRecords == InitCache /\ [][NextRecords]_vars

\* identifier resolution over every registry
NextFind == \E identifier \in AllIdentifiers : find(identifier)

SpecFind == InitFind /\ [][NextFind]_vars

\* timezone resolution over every table
NextTz == \E tzinfo \in TzInputs : resolve_timezone(tzinfo)

SpecTz == InitTz /\ [][NextTz]_vars

InitExecutor ==
    /\ containers \in AssemblerRegistries
    /\ data = [k \in {} |-> <<>>]
    /\ TIMEZONES = DefaultTable
    /\ last = [op |-> "__init__"]
    /\ fetched = NoFetch
    /\ fs \in Disks

\* the download executor over every descriptor list
NextExecutor == \E downloads \in DescriptorLists : execute_downloads(downloads)

SpecExecutor == InitExecutor /\ [][NextExecutor]_vars

\* records() and the download assembler on one cache
Next ==
    \/ \E identifier \in Identifiers(containers), refresh \in BOOLEAN :
           records(identifier, refresh, 0, None)
    \/ \E identifier \in Identifiers(containers), field_key \in FieldKeys,
          label_keys \in LabelKeyArgs, out_dir \in OutDirs :
           assemble_downloads(identifier, field_key, label_keys, out_dir)

Spec == Init /\ [][Next]_vars

\* download() on one cache and one disk, beside records() as called with
\* its defaults
NextDownload ==
    \/ \E identifier \in Identifiers(containers) :
           records(identifier, FALSE, 0, None)
    \/ \E identifier \in Identifiers(containers), field \in Fields,
          label_keys \in DownloadLabelKeyArgs, out_dir \in OutDirs :
           download(identifier, field, out_dir, label_keys)

SpecDownload == Init /\ [][NextDownload]_vars

-----------------------------------------------------------------------------
(* Properties. *)

\* the places of the registry whose container has obj, view or name equal to s
MatchingPlaces(s) ==
    { i \in DOMAIN containers :
          containers[i].obj = s \/ containers[i].view = s \/ containers[i].name = s }

\* C1: _find_container(s) returns a container exactly when one and only one
\* container of the registry has obj, view or name equal to s, and then it
\* returns that container; when two or more match it raises the ambiguous
\* identifier error (ValueError) and returns nothing
C1_FindContainer ==
    last.op = "_find_container" =>
        LET places == MatchingPlaces(last.identifier)
        IN  /\ last.outcome = "return" <=> Cardinality(places) = 1
            /\ last.outcome = "return" =>
                   \A i \in places : last.container = containers[i]
            /\ Cardinality(places) >= 2 =>
                   (last.outcome = "ValueError" /\ last.container = NoContainer)
            /\ Cardinality(places) = 0 => last.outcome = "IndexError"

\* a name that one container carries as its name and another as its key is
\* refused, while a string only one container carries resolves to it
C1_Witness ==
    /\ last.op = "_find_container"
    /\ Len(containers) = 2
    /\ containers[1].obj = "object_1"
    /\ containers[2].name = "object_1"
    /\ last.identifier = "object_1"
    /\ last.outcome = "ValueError"

\* C2: two calls of records() in a row for one container with refresh =
\* False: the second call makes no transport fetch and returns the data the
\* first returned, whatever batch the transport gave (the empty one too)
C2_Idempotent ==
    [][ ( /\ last.op = "records" /\ last.outcome = "return" /\ ~last.refresh
          /\ last'.op = "records" /\ ~last'.refresh
          /\ last'.key = last.key )
        => ( /\ last'.outcome = "return"
             /\ last'.fetches = 0
             /\ last'.result = last.result
             /\ last.fetches + last'.fetches <= 1 ) ]_vars

\* C3: records() with refresh = True on a resolvable container makes exactly
\* one transport fetch, with or without a prior entry, and when the fetch
\* succeeds the entry of the container key is the batch just returned
C3_Refresh ==
    (last.op = "records" /\ last.refresh /\ last.key # None) =>
        /\ last.fetches = 1
        /\ last.request.sent
        /\ last.response.ok =>
               /\ last.outcome = "return"
               /\ last.key \in DOMAIN data
               /\ data[last.key] = last.response.batch
               /\ last.result = last.response.batch

\* a refresh over an existing entry that fetched a one-row batch
C3_Witness ==
    /\ last.op = "records" /\ last.refresh /\ last.had_entry
    /\ last.outcome = "return" /\ last.fetches = 1
    /\ Len(last.response.batch) = 1
    /\ data[last.key] = last.response.batch

\* C4: with refresh = False and an entry for the container key, records()
\* returns the stored batch unchanged whatever filters and record_limit are
\* passed, and sends nothing to the transport
C4_HitIgnoresQuery ==
    [][ ( /\ last'.op = "records" /\ ~last'.refresh
          /\ last'.key \in DOMAIN data )
        => ( /\ last'.outcome = "return"
             /\ last'.fetches = 0
             /\ ~last'.request.sent
             /\ last'.result = data[last'.key]
             /\ data' = data ) ]_vars

\* C5: after any sequence of records() calls, every container key that had
\* a successful fetch has one cache entry, the batch its latest successful
\* fetch returned (and the cache holds nothing else)
C5_Coherent ==
    /\ DOMAIN data = DOMAIN fetched
    /\ \A k \in DOMAIN fetched : data[k] = fetched[k]

\* both containers fetched, and the last call a refresh that failed after
\* the entry it was to replace had been fetched
C5_Witness ==
    /\ Cardinality(DOMAIN fetched) = 2
    /\ last.op = "records" /\ last.refresh
    /\ last.outcome = "TransportFailure"
    /\ last.key \in DOMAIN fetched /\ fetched[last.key] # <<>>

\* C6: when the transport fetch fails, records() ends in that failure and
\* the cache is as it was before the call
C6_FailureKeepsCache ==
    [][ ( /\ last'.op = "records" /\ last'.fetches = 1 /\ ~last'.response.ok )
        => ( /\ last'.outcome = "TransportFailure"
             /\ data' = data ) ]_vars

\* a failed first fetch of a container that has no entry, beside the
\* entry of another container
C6_Witness ==
    /\ last.op = "records" /\ last.outcome = "TransportFailure"
    /\ ~last.had_entry
    /\ last.key \notin DOMAIN data
    /\ \E k \in DOMAIN data : data[k] # <<>>

\* C7: records() without an identifier goes on as a call for the one
\* container the cache holds data for and returns its records (or ends in
\* the transport's failure, when it has to fetch); with an empty cache, or
\* entries of two or more containers, it raises the missing identifier error
\* (TypeError), makes no fetch and leaves the cache as it was
C7_MissingIdentifier ==
    [][ ( last'.op = "records" /\ Falsy(last'.identifier) )
        => IF Cardinality(DOMAIN data) = 1
           THEN \A k \in DOMAIN data :
                    /\ last'.key = k
                    /\ last'.outcome \in {"return", "TransportFailure"}
                    /\ last'.outcome = "return" => last'.result = data'[k]
           ELSE /\ last'.outcome = "TypeError"
                /\ last'.fetches = 0
                /\ data' = data ]_vars

\* the zones pytz resolves a name to
ZoneOf(name) == { z \in IanaZones : Lower(z) = Lower(name) }

\* the places of the table whose common name is s without regard to case
CommonPlaces(s) ==
    { i \in DOMAIN TIMEZONES : Lower(TIMEZONES[i].common_name) = Lower(s) }

\* C8: a valid IANA name resolves to its own zone whatever the table holds;
\* any other input resolves to the zone of the first table entry whose
\* common name equals it without regard to case; the unknown timezone error
\* (ValueError) is raised exactly when both fail
C8_Timezone ==
    last.op = "_get_timezone" =>
        LET s == last.tzinfo
            places == CommonPlaces(s)
        IN  IF ZoneOf(s) # {}
            THEN last.outcome = "return" /\ last.zone \in ZoneOf(s)
            ELSE IF places # {}
                    /\ \A i \in places :
                           (\A j \in places : i <= j) =>
                               ZoneOf(TIMEZONES[i].iana_name) # {}
            THEN /\ last.outcome = "return"
                 /\ \A i \in places :
                        (\A j \in places : i <= j) =>
                            last.zone \in ZoneOf(TIMEZONES[i].iana_name)
            ELSE last.outcome = "ValueError"

\* two entries with the same common name up to case and different zones:
\* the first one's zone is the result
C8_Witness ==
    /\ last.op = "_get_timezone"
    /\ Len(TIMEZONES) = 2
    /\ TIMEZONES[1] = [common_name |-> "et", iana_name |-> "US/C"]
    /\ TIMEZONES[2] = [common_name |-> "ET", iana_name |-> "US/E"]
    /\ last.tzinfo = "Et"
    /\ last.outcome = "return" /\ last.zone = "US/C"

\* the places of the batch whose record holds a non-empty payload under key
PayloadPlaces(batch, key) ==
    { i \in DOMAIN batch : key \in DOMAIN batch[i] /\ DOMAIN batch[i][key] # {} }

\* the j-th smallest member of a set of places
NthPlace(places, j) ==
    CHOOSE i \in places : Cardinality({ m \in places : m < i }) = j - 1

\* v1_v2_..._vn_ for the label keys from the k-th on, left to right
RECURSIVE LabelPrefix(_, _, _)
LabelPrefix(raw, list, k) ==
    IF k > Len(list) THEN ""
    ELSE Format(raw[list[k]]) \o "_" \o LabelPrefix(raw, list, k + 1)

\* the filename the service gave the attachment: the last part of its url
UpstreamName(file_dict) == SubSeq(file_dict.url, 3, Len(file_dict.url))

\* C9: for every record holding the attachment and the values of all label
\* keys, the assembled destination is out_dir joined with v1_..._vn_ and the
\* upstream filename, labels left to right in label_keys order; with no
\* label keys it is out_dir joined with the upstream filename
C9_Filename ==
    (last.op = "_assemble_downloads" /\ last.outcome = "return") =>
        LET key == last.field_key \o "_raw"
            batch == data[last.key]
            places == PayloadPlaces(batch, key)
            list == last.label_keys.list
        IN  \A j \in 1..Cardinality(places) :
                LET raw == batch[NthPlace(places, j)]
                IN  (\A k \in DOMAIN list : list[k] \in DOMAIN raw) =>
                        /\ j \in DOMAIN last.downloads
                        /\ last.downloads[j].filename =
                               path_join(last.out_dir,
                                         LabelPrefix(raw, list, 1)
                                             \o UpstreamName(last.downloads[j]))

\* C10: the assembler returns one descriptor for each cached record whose
\* payload under "<field_key>_raw" is present and non-empty and none for the
\* others, in the order of the records in the batch
C10_Descriptors ==
    (last.op = "_assemble_downloads" /\ last.key # None) =>
        LET key == last.field_key \o "_raw"
        IN  /\ last.fetches = 0 \/ last.response.ok => last.outcome = "return"
            /\ last.outcome = "return" =>
                   LET batch == data[last.key]
                       places == PayloadPlaces(batch, key)
                   IN  /\ Len(last.downloads) = Cardinality(places)
                       /\ \A j \in DOMAIN last.downloads :
                              last.downloads[j] = batch[NthPlace(places, j)][key]

\* a batch whose first record has an empty payload and whose second has one:
\* one descriptor; and a batch of two records with payloads, in batch order
C10_Witness ==
    /\ last.op = "_assemble_downloads" /\ last.outcome = "return"
    /\ last.field_key = "field_17"
    /\ Len(data[last.key]) = 2
    /\ data[last.key][1].id = "r3" /\ data[last.key][2].id = "r1"
    /\ Len(last.downloads) = 2
    /\ last.downloads[1].url = "u/b" /\ last.downloads[2].url = "u/a"

\* v1_v2_..._vn_ for the label keys from the k-th on, left to right, a key
\* the record does not hold giving the empty segment
RECURSIVE LabelSegments(_, _, _)
LabelSegments(raw, list, k) ==
    IF k > Len(list) THEN ""
    ELSE (IF list[k] \in DOMAIN raw THEN Format(raw[list[k]]) ELSE "")
         \o "_" \o LabelSegments(raw, list, k + 1)

\* the batch an assembly reads: the one its own fetch returned, or else the
\* entry the cache held when it was called
BatchRead(call, d) ==
    IF call.fetches = 1 THEN call.response.batch ELSE d[call.key]

\* C11: when a key of label_keys is absent from a record's raw data, the
\* assembly does not fail and the record's filename is out_dir joined with
\* the label segments and the payload's filename, the absent key's segment
\* being the empty string and the other labels composed as usual
C11_MissingLabel ==
    [][ (last'.op = "_assemble_downloads" /\ last'.key # None
         /\ (last'.fetches = 0 \/ last'.response.ok))
        => /\ last'.outcome = "return"
           /\ LET key == last'.field_key \o "_raw"
                  before == BatchRead(last', data)
                  places == PayloadPlaces(before, key)
                  list == last'.label_keys.list
              IN  \A j \in 1..Cardinality(places) :
                      LET raw == before[NthPlace(places, j)]
                      IN  (\E k \in DOMAIN list : list[k] \notin DOMAIN raw) =>
                              /\ j \in DOMAIN last'.downloads
                              /\ last'.downloads[j].filename =
                                     path_join(last'.out_dir,
                                               LabelSegments(raw, list, 1)
                                                   \o raw[key].filename) ]_vars

\* the first n descriptors' values of one attribute
Firsts(downloads, n, attr) == [j \in 1..n |-> downloads[j][attr]]

\* C12: if the transfer of descriptor i gets a non-success status, the
\* executor raises the download failure (HTTPError) at once: it has asked for
\* no descriptor after i, has written the files of the descriptors before i
\* and no other, and those files are on the disk with all it held before
C12_BatchAbort ==
    [][ last'.op = "_download_files" =>
          \A i \in DOMAIN last'.downloads :
              (i <= Len(last'.attempted) /\ ~last'.statuses[i]) =>
                  /\ last'.outcome = "HTTPError"
                  /\ last'.count = None
                  /\ last'.attempted = Firsts(last'.downloads, i, "url")
                  /\ last'.written = Firsts(last'.downloads, i - 1, "filename")
                  /\ fs'.dirs = fs.dirs
                  /\ fs'.files = fs.files
                         \cup { last'.downloads[j].filename : j \in 1..(i - 1) } ]_vars

\* three descriptors, the second transfer fails: the first file is on the
\* disk, the third url was never asked for
C12_Witness ==
    /\ last.op = "_download_files"
    /\ Len(last.downloads) = 3
    /\ last.statuses = <<TRUE, FALSE, TRUE>>
    /\ last.downloads[1].filename # last.downloads[3].filename
    /\ last.outcome = "HTTPError"
    /\ Len(last.attempted) = 2
    /\ last.written = <<last.downloads[1].filename>>
    /\ last.downloads[1].filename \in fs.files
    /\ last.downloads[3].filename \notin fs.files

\* C13: the executor asks for the descriptors' urls one at a time in the
\* order given, writing each file before it asks for the next; the count it
\* returns is the number of files it wrote, and it returns only when every
\* transfer succeeded, the count then being the number of descriptors
C13_SequentialCount ==
    last.op = "_download_files" =>
        /\ Len(last.attempted) <= Len(last.downloads)
        /\ last.attempted = Firsts(last.downloads, Len(last.attempted), "url")
        /\ Len(last.written) <= Len(last.attempted)
        /\ Len(last.attempted) - Len(last.written) <= 1
        /\ last.written = Firsts(last.downloads, Len(last.written), "filename")
        /\ \A j \in DOMAIN last.written : last.written[j] \in fs.files
        /\ last.outcome = "return" =>
               /\ \A i \in DOMAIN last.downloads : last.statuses[i]
               /\ last.count = Len(last.written)
               /\ last.count = Len(last.downloads)
        /\ (\A i \in DOMAIN last.downloads : last.statuses[i]) =>
               \/ last.outcome = "return"
               \/ last.outcome \in {"FileNotFoundError", "IsADirectoryError"}

\* three transfers of two different files, all successful, in the order
\* given
C13_Witness ==
    /\ last.op = "_download_files"
    /\ Len(last.downloads) = 3
    /\ last.downloads[1].url = "u/c" /\ last.downloads[2].url = "u/a"
    /\ last.outcome = "return" /\ last.count = 3
    /\ last.attempted = <<"u/c", "u/a", last.downloads[3].url>>
    /\ last.written = <<"c", "o/a", last.downloads[3].filename>>

\* whether a field definition on the container has the field as its key, or
\* as its name without regard to case
KnownField(container, field) ==
    \E i \in DOMAIN field_defs :
        /\ field_defs[i].obj = container.obj
        /\ field_defs[i].key = field \/ Lower(field_defs[i].name) = Lower(field)

\* C14: for an identifier that resolves to one container C (by object key,
\* view key or name), download() raises the unknown field error exactly when
\* no field definition on C has the field as key or, without regard to case,
\* as name; otherwise it goes on to assemble and download from C's records
C14_UnknownField ==
    (last.op = "download" /\ ~Falsy(last.identifier)
     /\ Cardinality(MatchingPlaces(last.identifier)) = 1) =>
        \A i \in MatchingPlaces(last.identifier) :
            /\ last.outcome = FieldNotFound <=> ~KnownField(containers[i], last.field)
            /\ KnownField(containers[i], last.field) =>
                   /\ last.container = containers[i]
                   /\ last.key = container_key(containers[i])

\* whether the step fetched a batch for key k
FetchedFor(call, k) ==
    call.op \in {"records", "_assemble_downloads", "download"}
    /\ call.fetches = 1 /\ call.key = k /\ call.response.ok

\* the destination filenames of a descriptor list
Filenames(downloads) == [j \in DOMAIN downloads |-> downloads[j].filename]

\* C15: a cache entry changes only through a transport fetch made by
\* records(), and is then the batch fetched; resolution, assembly and
\* download leave every cached raw record as it was, so that two assemblies
\* in a row with the same arguments and no fetch in between return the same
\* destination filenames
C15_CacheFrame ==
    [][ /\ \A k \in DOMAIN data : k \in DOMAIN data'
        /\ \A k \in DOMAIN data' :
               IF FetchedFor(last', k)
               THEN data'[k] = last'.response.batch
               ELSE k \in DOMAIN data /\ data'[k] = data[k]
        /\ ( /\ last.op = "_assemble_downloads" /\ last.outcome = "return"
             /\ last'.op = "_assemble_downloads" /\ last'.fetches = 0
             /\ last'.identifier = last.identifier
             /\ last'.field_key = last.field_key
             /\ last'.label_keys = last.label_keys
             /\ last'.out_dir = last.out_dir )
           => ( /\ last'.outcome = "return"
                /\ Filenames(last'.downloads) = Filenames(last.downloads) ) ]_vars

\* C16: in download() the output directory exists before any transfer, every
\* assembled destination lies directly in a directory that exists, and so
\* no write finds its directory missing
C16_DirectoryExists ==
    last.op = "download" =>
        /\ last.out_dir \in fs.dirs
        /\ \A j \in DOMAIN last.downloads :
               dir_exists(fs, dirname(last.downloads[j].filename))
        /\ last.outcome # "FileNotFoundError"

\* C17: after a successful records() call for a container through one
\* identifier, a records() call with refresh = False through another
\* identifier that resolves to the same container makes no transport fetch
\* and returns the same batch
C17_KeyedByContainer ==
    [][ ( /\ last.op = "records" /\ last.outcome = "return"
          /\ last'.op = "records" /\ ~last'.refresh
          /\ last'.key = last.key
          /\ ~Falsy(last.identifier) /\ ~Falsy(last'.identifier)
          /\ last'.identifier # last.identifier )
        => ( /\ last'.outcome = "return"
             /\ last'.fetches = 0
             /\ ~last'.request.sent
             /\ last'.result = last.result ) ]_vars

\* the object and view keys of the registry's containers
RegistryKeys ==
    { containers[i].obj : i \in DOMAIN containers }
        \cup { containers[i].view : i \in DOMAIN containers }

\* C18: a records() call for one container, whatever its refresh flag and
\* whether it succeeds or fails, leaves the entry of every other container
\* as it was, and every key of the cache is the object key or view key of a
\* container of the registry
C18_OtherEntriesKept ==
    [][ last'.op = "records" =>
          /\ \A k \in DOMAIN data :
                 k # last'.key => (k \in DOMAIN data' /\ data'[k] = data[k])
          /\ \A k \in DOMAIN data' :
                 k # None /\ k \in RegistryKeys ]_vars

\* a refresh of one container that fetched rows while the other container's
\* entry, holding rows too, stayed
C18_Witness ==
    /\ last.op = "records" /\ last.refresh /\ last.had_entry
    /\ last.outcome = "return" /\ last.fetches = 1
    /\ data[last.key] # <<>>
    /\ \E k \in DOMAIN data :
           k # last.key /\ data[k] # <<>> /\ data[k] # data[last.key]

\* C19: records() with an identifier that matches no container raises the
\* unknown container error (IndexError), with one that matches several the
\* ambiguous identifier error (ValueError); in both cases nothing is asked
\* of the transport and the cache is as it was
C19_ResolutionErrorFirst ==
    [][ ( /\ last'.op = "records" /\ ~Falsy(last'.identifier)
          /\ Cardinality(MatchingPlaces(last'.identifier)) # 1 )
        => ( /\ last'.outcome =
                    (IF MatchingPlaces(last'.identifier) = {}
                     THEN "IndexError" ELSE "ValueError")
             /\ last'.fetches = 0
             /\ ~last'.request.sent
             /\ last'.response = NoResponse
             /\ data' = data
             /\ fetched' = fetched ) ]_vars

\* an ambiguous identifier refused, with refresh asked for, while the cache
\* holds rows
C19_Witness ==
    /\ last.op = "records" /\ last.refresh
    /\ last.identifier = "object_1"
    /\ Cardinality(MatchingPlaces(last.identifier)) = 2
    /\ last.outcome = "ValueError" /\ last.fetches = 0
    /\ \E k \in DOMAIN data : data[k] # <<>>

=============================================================================
